---- MODULE Spec2Model ----
(***************************************************************************)
(* A state-machine model of web2md (src/src/lib.rs): the HTTP entry point  *)
(* `main`, the retry loop of `fetch_url_with_timeout`, and the recursive   *)
(* tree walk of `MarkdownFormatter`.                                       *)
(*                                                                         *)
(* The recursion of process_node / process_children is modelled by an      *)
(* explicit call stack of frames.  The document tree is produced by the    *)
(* (external) parser; the walk sees it as a sequence of "enter element",   *)
(* "text" and "leave element" events, so every behaviour of the walker     *)
(* corresponds to the depth-first traversal of one finite tree.            *)
(* Strings are TLA+ strings (Len, Head, Tail, SubSeq and \o apply).        *)
(***************************************************************************)
EXTENDS Naturals, Sequences, FiniteSets, TLC

\* Bounds of the model: number of tree nodes visited and nesting depth.
MaxNodes == 6
MaxDepth == 5

VARIABLES
    config,           \* ConvertConfig of the request
    content,          \* MarkdownFormatter.content
    indent_level,     \* MarkdownFormatter.indent_level
    list_type_stack,  \* MarkdownFormatter.list_type_stack
    in_table,         \* MarkdownFormatter.in_table
    table_rows,       \* MarkdownFormatter.table_rows
    current_row,      \* MarkdownFormatter.current_row
    current_cell,     \* MarkdownFormatter.current_cell
    metadata,         \* MarkdownFormatter.metadata
    in_code_block,    \* MarkdownFormatter.in_code_block
    stack,            \* call stack of process_node / process_list / process_link
    nodes,            \* number of tree nodes handed to the walk so far
    handle,           \* the node of the latest process_node call
    pc,               \* position of the request in main / fetch / conversion
    out,              \* value returned by MarkdownFormatter::result
    request,          \* the incoming HTTP request: method and whether its JSON body decodes
    retry_count,      \* fetch_url_with_timeout: retry_count
    log,              \* the send attempts and backoff delays of the fetch, in order
    fetched,          \* what fetch_url_with_timeout returned
    resp,             \* what the latest send of the fetch came back with
    reply             \* the HTTP response of main

fmt_vars == <<content, indent_level, list_type_stack, in_table, table_rows,
              current_row, current_cell, metadata, in_code_block>>
list_vars == <<indent_level, list_type_stack>>
table_vars == <<in_table, table_rows, current_row, current_cell>>
http_vars == <<request, retry_count, log, fetched, resp, reply>>
vars == <<config, content, indent_level, list_type_stack, in_table, table_rows,
          current_row, current_cell, metadata, in_code_block, stack, nodes,
          handle, pc, out, request, retry_count, log, fetched, resp,
          reply>>

----------------------------------------------------------------------------
(* Option values *)

None == [some |-> FALSE, v |-> ""]
Some(x) == [some |-> TRUE, v |-> x]

----------------------------------------------------------------------------
(* String helpers: what the Rust std / regex calls do on ASCII text *)

\* char::is_whitespace and the regex class \s, on the characters of the model
IsWs(c) == c \in {" ", "\n", "\t"}

Last(s) == SubSeq(s, Len(s), Len(s))

RECURSIVE Repeat(_, _)
\* str::repeat
Repeat(s, n) == IF n = 0 THEN "" ELSE s \o Repeat(s, n - 1)

RECURSIVE TrimStart(_)
TrimStart(s) ==
    IF s = "" THEN ""
    ELSE IF IsWs(Head(s)) THEN TrimStart(Tail(s)) ELSE s

RECURSIVE TrimEnd(_)
TrimEnd(s) ==
    IF s = "" THEN ""
    ELSE IF IsWs(Last(s)) THEN TrimEnd(SubSeq(s, 1, Len(s) - 1)) ELSE s

\* str::trim
Trim(s) == TrimEnd(TrimStart(s))

RECURSIVE ReplaceWsRuns(_, _)
\* WHITESPACE_REGEX.replace_all(s, rep): every maximal run of whitespace
\* (the pattern is \s+) is replaced by rep
ReplaceWsRuns(s, rep) ==
    IF s = "" THEN ""
    ELSE IF IsWs(Head(s)) THEN rep \o ReplaceWsRuns(TrimStart(s), rep)
    ELSE Head(s) \o ReplaceWsRuns(Tail(s), rep)

RECURSIVE AllWs(_)
AllWs(s) == IF s = "" THEN TRUE ELSE IsWs(Head(s)) /\ AllWs(Tail(s))

EndsWithNewline(s) == s # "" /\ Last(s) = "\n"

StartsWith(s, p) == Len(s) >= Len(p) /\ SubSeq(s, 1, Len(p)) = p

\* decimal digits, as format!("{}", n) prints an unsigned integer
Digit(d) == SubSeq("0123456789", d + 1, d + 1)

RECURSIVE Decimal(_)
Decimal(n) == IF n < 10 THEN Digit(n) ELSE Decimal(n \div 10) \o Digit(n % 10)

\* str::parse::<usize> on a one-character string: None for a non-digit
ParseUsize(s) ==
    IF Len(s) = 1 /\ \E d \in 0..9 : Digit(d) = s
    THEN Some(CHOOSE d \in 0..9 : Digit(d) = s)
    ELSE None

RECURSIVE FirstToken(_)
\* the first whitespace-delimited token of s (s does not start with whitespace)
FirstToken(s) ==
    IF s = "" \/ IsWs(Head(s)) THEN "" ELSE Head(s) \o FirstToken(Tail(s))

RECURSIVE FindLanguage(_)
\* class.split_whitespace().find(|c| c.starts_with("language-")).map(|c| &c[9..])
FindLanguage(class) ==
    LET s == TrimStart(class)
        tok == FirstToken(s)
    IN  IF s = "" THEN None
        ELSE IF StartsWith(tok, "language-")
             THEN Some(SubSeq(tok, 10, Len(tok)))
             ELSE FindLanguage(SubSeq(s, Len(tok) + 1, Len(s)))

----------------------------------------------------------------------------
(* Nodes of the document tree, as the walk meets them *)

Element(tag, attrs) == [kind |-> "element", tag |-> tag, attrs |-> attrs, text |-> ""]
TextNode(t) == [kind |-> "text", tag |-> "", attrs |-> <<>>, text |-> t]
CommentNode == [kind |-> "comment", tag |-> "", attrs |-> <<>>, text |-> ""]
PINode == [kind |-> "pi", tag |-> "", attrs |-> <<>>, text |-> ""]

RECURSIVE FindAttr(_, _)
\* attrs.iter().find(|attr| attr.name.local.as_ref() == name): first match wins
FindAttr(attrs, name) ==
    IF attrs = <<>> THEN None
    ELSE IF Head(attrs)[1] = name THEN Some(Head(attrs)[2])
    ELSE FindAttr(Tail(attrs), name)

----------------------------------------------------------------------------
(* Static tables *)

\* The backquote character (U+0060) of the source.  The model writes it as an
\* apostrophe, which the formatter emits nowhere else.
BT == "'"

HeadingTags == {"h1", "h2", "h3", "h4", "h5", "h6"}

INLINE_TAGS ==
    [strong |-> <<"**", "**">>, b |-> <<"**", "**">>, em |-> <<"*", "*">>,
     i |-> <<"*", "*">>, code |-> <<BT, BT>>, mark |-> <<"==", "==">>,
     del |-> <<"~~", "~~">>, ins |-> <<"__", "__">>]

BLOCK_TAGS == {"p", "div", "article", "section", "table", "tr", "td", "th"}

Unordered == [kind |-> "Unordered", start |-> 0]
Ordered(n) == [kind |-> "Ordered", start |-> n]

\* A wrong indentation step: 2 for every list, ordered or not.
EveryListIndentsTwo(list_type) == IF list_type.kind = "Unordered" THEN 2 ELSE 2

\* the indentation step of process_list
IndentStep(list_type) == IF list_type.kind = "Unordered" THEN 2 ELSE 3

----------------------------------------------------------------------------
(* Call stack *)

Frame(arm, tag) ==
    [arm |-> arm, tag |-> tag, old_content |-> "", href |-> None,
     side |-> FALSE, was_in_code |-> FALSE, list_type |-> Unordered,
     current_count |-> 0, items |-> 0]

\* arm:           the arm of process_node (or the function) the call is in
\* old_content, href, side: locals of process_link (side: the side buffer is in use)
\* was_in_code:   local of the `code` arm
\* list_type, current_count: locals of process_list
\* items:         position of process_list in its children: `li` children met so far
DocFrame == Frame("doc", "")

Top == stack[Len(stack)]
Pop == SubSeq(stack, 1, Len(stack) - 1)
Push(f) == Append(stack, f)

----------------------------------------------------------------------------
(* MarkdownFormatter: the pure parts *)

\* MarkdownFormatter::should_skip_node
should_skip_node(e) ==
    IF ~config.remove_scripts /\ ~config.remove_styles /\ ~config.remove_comments
    THEN FALSE
    ELSE IF e.kind = "element"
         THEN (config.remove_scripts /\ e.tag = "script")
              \/ (config.remove_styles /\ e.tag = "style")
    ELSE IF e.kind = "comment" THEN config.remove_comments
    ELSE IF e.kind = "pi" THEN TRUE
    ELSE FALSE

\* MarkdownFormatter::clean_text
clean_text(text) ==
    IF ~config.clean_whitespace \/ in_code_block
    THEN text
    ELSE LET cleaned == ReplaceWsRuns(Trim(text), " ")
         IN  IF AllWs(cleaned) THEN "" ELSE cleaned

\* MarkdownFormatter::add_newline, on a buffer
add_newline(c) == IF ~EndsWithNewline(c) THEN c \o "\n" ELSE c

\* MarkdownFormatter::add_double_newline, on a buffer
add_double_newline(c) == add_newline(add_newline(c))

\* The arm of the `match tag_name` of process_node that an element takes; the
\* arms are tried in the order of the source.
Arm(tag) ==
    IF tag \in HeadingTags THEN "header"
    ELSE IF tag = "a" THEN "link"
    ELSE IF tag = "img" THEN "image"
    ELSE IF tag = "meta" /\ config.include_metadata THEN "meta"
    ELSE IF tag = "pre" THEN "pre"
    ELSE IF tag = "code" THEN "code"
    ELSE IF tag = "table" THEN "table"
    ELSE IF tag = "tr" /\ in_table THEN "tr"
    ELSE IF tag \in {"th", "td"} /\ in_table THEN "cell"
    ELSE IF tag = "ul" THEN "ul"
    ELSE IF tag = "ol" THEN "ol"
    ELSE IF tag \in DOMAIN INLINE_TAGS THEN "inline"
    ELSE IF tag \in BLOCK_TAGS THEN "block"
    ELSE "other"

Max(a, b) == IF a >= b THEN a ELSE b

RECURSIVE ColWidth(_, _)
\* the value of col_widths[i] after the loop over all rows of format_table
ColWidth(rows, i) ==
    IF rows = <<>> THEN 0
    ELSE Max(ColWidth(SubSeq(rows, 1, Len(rows) - 1), i),
             IF i <= Len(rows[Len(rows)]) THEN Len(rows[Len(rows)][i]) ELSE 0)

\* A wrong col_widths: the widths of the first row only, the later rows
\* not measured.
FirstRowWidths(rows) == [i \in 1..Len(rows[1]) |-> Len(rows[1][i])]

\* col_widths of format_table: one entry per cell of the first row
ColWidths(rows) == [i \in 1..Len(rows[1]) |-> ColWidth(rows, i)]

RECURSIVE RowCells(_, _, _)
\* the loop of format_table_row, from cell i on
RowCells(row, col_widths, i) ==
    IF i > Len(row) THEN ""
    ELSE (IF i <= Len(col_widths)
          THEN " " \o row[i]
               \o (IF col_widths[i] >= Len(row[i])
                   THEN Repeat(" ", col_widths[i] - Len(row[i])) ELSE "")
               \o " |"
          ELSE "")
         \o RowCells(row, col_widths, i + 1)

\* format_table_row panics when `col_widths[i] - cell.len()` underflows
RowPanics(row, col_widths) ==
    \E i \in 1..Len(row) : i <= Len(col_widths) /\ col_widths[i] < Len(row[i])

\* MarkdownFormatter::format_table_row, on a buffer
format_table_row(c, row, col_widths) ==
    add_newline(c \o "|" \o RowCells(row, col_widths, 1))

RECURSIVE SeparatorCells(_, _)
SeparatorCells(col_widths, i) ==
    IF i > Len(col_widths) THEN ""
    ELSE " " \o Repeat("-", col_widths[i]) \o " |" \o SeparatorCells(col_widths, i + 1)

RECURSIVE FormatRows(_, _, _, _)
\* `for row in rows_to_process.iter().skip(1)` of format_table, from row r on
FormatRows(c, rows, col_widths, r) ==
    IF r > Len(rows) THEN c
    ELSE FormatRows(format_table_row(c, rows[r], col_widths), rows, col_widths, r + 1)

\* MarkdownFormatter::format_table, on a buffer and the accumulated rows
format_table(c, rows) ==
    IF rows = <<>> THEN c
    ELSE LET col_widths == ColWidths(rows)
             header == format_table_row(add_double_newline(c), rows[1], col_widths)
             sep == add_newline(header \o "|" \o SeparatorCells(col_widths, 1))
         IN  add_newline(FormatRows(sep, rows, col_widths, 2))

\* whether format_table panics on the accumulated rows
format_table_panics(rows) ==
    rows # <<>> /\ \E r \in 1..Len(rows) : RowPanics(rows[r], ColWidths(rows))

RECURSIVE Join(_, _)
\* [String]::join
Join(strs, sep) ==
    IF strs = <<>> THEN ""
    ELSE IF Len(strs) = 1 THEN strs[1]
    ELSE strs[1] \o sep \o Join(Tail(strs), sep)

\* MetadataHandler::new
NewMetadata ==
    [title |-> None, author |-> None, date |-> None, description |-> None,
     tags |-> <<>>]

\* MetadataHandler::format_metadata
format_metadata(m) ==
    (IF m.title.some THEN "# " \o m.title.v \o "\n\n" ELSE "")
    \o "---\n"
    \o (IF m.author.some THEN "Author: " \o m.author.v \o "\n" ELSE "")
    \o (IF m.date.some THEN "Date: " \o m.date.v \o "\n" ELSE "")
    \o (IF m.description.some THEN "Description: " \o m.description.v \o "\n" ELSE "")
    \o (IF m.tags # <<>> THEN "Tags: " \o Join(m.tags, ", ") \o "\n" ELSE "")
    \o "---\n\n"

\* MarkdownFormatter::result
result ==
    LET final_content ==
            (IF config.include_metadata THEN format_metadata(metadata) ELSE "")
            \o Trim(content)
    IN  IF config.clean_whitespace /\ ~config.preserve_line_breaks
        THEN Trim(ReplaceWsRuns(final_content, "\n\n"))
        ELSE Trim(final_content)

----------------------------------------------------------------------------
(* The documents.  The page a request names decides which nodes the parser  *)
(* hands to the walk; a page is a family of trees, given by the nodes that  *)
(* may occur as children of a node of each kind.  The cells of the page     *)
(* "table" hold at most one text node, as the parser merges adjacent text;  *)
(* the cells of the page "cell links" hold one link and nothing else.       *)

\* number of nodes of the one long list of the page "long list"
LongListSize == 258

\* number of nodes of the tables of the page "table"
MaxTableNodes == 11

\* number of nodes and nesting depth of the tables of the page "nested table"
NestedTableNodes == 14
NestedTableDepth == 7

A(href) == Element("a", <<<<"href", href>>>>)
MetaEl(property, cont) ==
    Element("meta", <<<<"property", property>>, <<"content", cont>>>>)
El(tag) == Element(tag, <<>>)

Grammar(page, arm, visited, last) ==
    CASE page = "lists" ->
             IF arm = "doc" THEN {El("ul"), El("ol"), El("li")}
             ELSE IF arm = "list" THEN {El("li"), El("ol"), TextNode("A")}
             ELSE {El("ul"), El("ol"), El("li"), TextNode("A"), TextNode("B")}
      [] page = "long list" ->
             IF arm = "doc" THEN (IF visited = 0 THEN {El("ol")} ELSE {})
             ELSE IF arm = "list" THEN {El("li")}
             ELSE {}
      [] page = "links" ->
             {El("a"), A("u"), El("p"), TextNode("x"), TextNode(" u ")}
      [] page = "cell links" ->
             IF arm = "doc" THEN {El("table"), A("u")}
             ELSE IF arm = "table" THEN {El("tr")}
             ELSE IF arm = "tr" THEN {El("td")}
             ELSE IF arm = "cell"
                  THEN (IF last.kind = "element" /\ last.tag = "td"
                        THEN {A("u")} ELSE {})
             ELSE {TextNode("x"), TextNode("u")}
      [] page = "text" ->
             {El("p"), El("br"), TextNode("a b"), TextNode("a"), TextNode("\n")}
      [] page = "table" ->
             IF arm = "doc" THEN (IF visited = 0 THEN {El("table")} ELSE {})
             ELSE IF arm = "table" THEN {El("tr")}
             ELSE IF arm = "tr" THEN {El("td")}
             ELSE IF last.kind = "text" THEN {}
             ELSE {TextNode("a"), TextNode("bb"), TextNode("ccc"), TextNode("d")}
      [] page = "cell emphasis" ->
             IF arm = "doc" THEN {El("table"), El("b"), TextNode("x")}
             ELSE IF arm = "table" THEN {El("tr")}
             ELSE IF arm = "tr" THEN {El("td")}
             ELSE IF arm = "cell"
                  THEN {El("strong"), El("em"), El("mark"), TextNode("x")}
             ELSE {El("i"), El("del"), El("ins"), TextNode("x")}
      [] page = "code" ->
             {El("pre"), El("code"), TextNode(" a  b ")}
      [] page = "meta" ->
             {MetaEl(p, c) : p \in {"og:title", "og:description", "article:author",
                                    "article:published_time"},
                             c \in {"a", "b"}}
             \cup {MetaEl("article:tag", "x"), MetaEl("article:tag", "y"),
                   MetaEl("og:image", "a"),
                   Element("meta", <<<<"property", "og:title">>>>),
                   TextNode("t")}
      [] page = "headings" ->
             {El("h2"), El("h3"), El("h6"), TextNode("T")}
      [] page = "plain" ->
             {TextNode("x")}
      [] page = "rows" ->
             IF arm = "doc" THEN {El("table")}
             ELSE IF arm = "table" THEN {El("tr")}
             ELSE IF arm = "tr" THEN {El("td")}
             ELSE {TextNode("x"), El("table")}
      [] page = "nested table" ->
             \* `<table><tr><td>a</td></tr><tr><td><table><tr><td>b</td>`, then
             \* further rows and cells of `c` in the inner and the outer table
             IF arm = "doc" THEN (IF visited = 0 THEN {El("table")} ELSE {})
             ELSE IF visited < 10
             THEN (IF arm = "table" /\ visited \in {1, 4, 7} THEN {El("tr")}
                   ELSE IF arm = "tr" /\ visited \in {2, 5, 8} THEN {El("td")}
                   ELSE IF arm = "cell" /\ visited = 3 THEN {TextNode("a")}
                   ELSE IF arm = "cell" /\ visited = 6 THEN {El("table")}
                   ELSE IF arm = "cell" /\ visited = 9 THEN {TextNode("b")}
                   ELSE {})
             ELSE IF arm = "table" THEN {El("tr")}
             ELSE IF arm = "tr" THEN {El("td")}
             ELSE IF last = El("tr") THEN {El("td")}
             ELSE IF last = El("td") THEN {TextNode("c")}
             ELSE {}
      [] page = "boundaries" ->
             IF arm = "doc"
             THEN {El("p"), El("h2"), El("ul"), El("table"),
                   Element("img", <<<<"alt", "x">>, <<"src", "u">>>>),
                   TextNode("a"), TextNode("\n\n")}
             ELSE IF arm = "block" THEN {El("p"), TextNode("a"), TextNode("\n\n")}
             ELSE IF arm = "list" THEN {El("li")}
             ELSE IF arm = "table" THEN {El("tr")}
             ELSE IF arm = "tr" THEN {El("td")}
             ELSE {TextNode("a")}
      [] page = "attrs" ->
             {El("img"), Element("img", <<<<"alt", "x">>, <<"src", "u">>>>),
              Element("pre", <<<<"class", "c language-rs">>>>),
              El("script"), CommentNode, TextNode("x")}
      [] OTHER -> {}

\* the largest number of nodes of a tree of the page
PageSize(page) ==
    IF page = "long list" THEN LongListSize
    ELSE IF page = "table" THEN MaxTableNodes
    ELSE IF page = "nested table" THEN NestedTableNodes
    ELSE MaxNodes

\* the deepest nesting of a tree of the page
PageDepth(page) ==
    IF page = "nested table" THEN NestedTableDepth ELSE MaxDepth

----------------------------------------------------------------------------
(* MarkdownFormatter::process_node, one action per arm.  An "Enter" action  *)
(* is the part of an arm before process_children, the matching "Leave"     *)
(* action the part after it.                                               *)

\* the walk is running and the tree still has a node to hand over
Visiting == pc = "walk" /\ nodes < PageSize(request.page)

\* process_children of the frame on top calls process_node(e), and e is not
\* skipped (process_list iterates its children itself)
Visits(e) == Visiting /\ Top.arm # "list" /\ ~should_skip_node(e)

VisitsElement(e, arm) == Visits(e) /\ e.kind = "element" /\ Arm(e.tag) = arm

CanDescend == Len(stack) < PageDepth(request.page)

\* the nodes that can come next at the current place of the tree
Offered == Grammar(request.page, Top.arm, nodes, handle)

Leaving(arm) == pc = "walk" /\ Top.arm = arm

\* process_node returns at once for a skipped node
SkipNode(e) ==
    /\ Visiting /\ Top.arm # "list" /\ should_skip_node(e)
    /\ nodes' = nodes + 1
    /\ handle' = e
    /\ UNCHANGED <<config, content, list_vars, table_vars, metadata,
                   in_code_block, stack, pc, out, http_vars>>

\* a comment or processing instruction that is not skipped: the `_` arm of
\* `match &handle.data`, process_children of a node without children
LeafNode(e) ==
    /\ Visits(e) /\ e.kind \in {"comment", "pi"}
    /\ nodes' = nodes + 1
    /\ handle' = e
    /\ UNCHANGED <<config, content, list_vars, table_vars, metadata,
                   in_code_block, stack, pc, out, http_vars>>

\* NodeData::Text arm
Text(e) ==
    /\ Visits(e) /\ e.kind = "text"
    /\ LET processed_text == clean_text(e.text)
       IN  IF in_table
           THEN current_cell' = current_cell \o processed_text /\ content' = content
           ELSE content' = content \o processed_text /\ current_cell' = current_cell
    /\ nodes' = nodes + 1
    /\ handle' = e
    /\ UNCHANGED <<config, list_vars, in_table, table_rows, current_row, metadata,
                   in_code_block, stack, pc, out, http_vars>>

\* `name[1..].parse::<usize>()` of the heading arm
HeadingLevel(tag) == ParseUsize(SubSeq(tag, 2, Len(tag)))

\* A wrong heading cap: `<` where the source has `<=`.
HeaderEmittedBelowCap(tag) ==
    /\ config.preserve_headings
    /\ (HeadingLevel(tag).v % 256) < config.max_heading_level

\* the two conditions of the heading arm (`level as u8` keeps the low 8 bits)
HeaderEmitted(tag) ==
    /\ config.preserve_headings
    /\ (HeadingLevel(tag).v % 256) <= config.max_heading_level

\* heading arm and process_header up to process_children; a failed unwrap of
\* the level aborts the conversion
EnterHeader(e) ==
    /\ VisitsElement(e, "header")
    /\ config.preserve_headings
    /\ IF ~HeadingLevel(e.tag).some
       THEN pc' = "aborted" /\ UNCHANGED <<content, stack, nodes, handle>>
       ELSE /\ HeaderEmitted(e.tag)
            /\ CanDescend
            /\ content' = add_double_newline(content)
                              \o Repeat("#", HeadingLevel(e.tag).v) \o " "
            /\ stack' = Push(Frame("header", e.tag))
            /\ nodes' = nodes + 1
            /\ handle' = e
            /\ pc' = pc
    /\ UNCHANGED <<config, list_vars, table_vars, metadata, in_code_block, out,
                   http_vars>>

\* heading arm when the heading is not emitted: nothing is done, the children
\* are not visited
DropHeader(e) ==
    /\ VisitsElement(e, "header")
    /\ IF config.preserve_headings
       THEN HeadingLevel(e.tag).some /\ ~HeaderEmitted(e.tag)
       ELSE TRUE
    /\ nodes' = nodes + 1
    /\ handle' = e
    /\ UNCHANGED <<config, content, list_vars, table_vars, metadata,
                   in_code_block, stack, pc, out, http_vars>>

\* process_header after process_children
LeaveHeader ==
    /\ Leaving("header")
    /\ content' = add_double_newline(content)
    /\ stack' = Pop
    /\ UNCHANGED <<config, handle, list_vars, table_vars, metadata, in_code_block, nodes,
                   pc, out, http_vars>>

\* process_link up to process_children
EnterLink(e) ==
    /\ VisitsElement(e, "link")
    /\ CanDescend
    /\ IF ~config.include_links
       THEN /\ stack' = Push(Frame("link", e.tag))
            /\ content' = content
       ELSE /\ stack' = Push([Frame("link", e.tag) EXCEPT
                                 !.side = TRUE,
                                 !.href = FindAttr(e.attrs, "href"),
                                 !.old_content = content])
            /\ content' = ""
    /\ nodes' = nodes + 1
    /\ handle' = e
    /\ UNCHANGED <<config, list_vars, table_vars, metadata, in_code_block, pc, out,
                   http_vars>>

\* what process_link leaves in `content` after process_children: old_content
\* restored, then the link pushed
LinkOutput(old_content, side_content, href) ==
    LET text == Trim(side_content)
    IN  IF href.some
        THEN IF text # "" /\ text # href.v
             THEN old_content \o "[" \o text \o "](" \o href.v \o ")"
             ELSE old_content \o "<" \o href.v \o ">"
        ELSE old_content

\* process_link after process_children
LeaveLink ==
    /\ Leaving("link")
    /\ content' = IF Top.side
                  THEN LinkOutput(Top.old_content, content, Top.href)
                  ELSE content
    /\ stack' = Pop
    /\ UNCHANGED <<config, handle, list_vars, table_vars, metadata, in_code_block, nodes,
                   pc, out, http_vars>>

\* process_image
Image(e) ==
    /\ VisitsElement(e, "image")
    /\ LET src == FindAttr(e.attrs, "src")
           found == FindAttr(e.attrs, "alt")
           alt == IF found.some THEN found.v ELSE ""
       IN  content' = IF src.some
                      THEN add_newline(add_newline(content)
                                       \o "![" \o alt \o "](" \o src.v \o ")")
                      ELSE content
    /\ nodes' = nodes + 1
    /\ handle' = e
    /\ UNCHANGED <<config, list_vars, table_vars, metadata, in_code_block, stack,
                   pc, out, http_vars>>

\* A wrong extract_metadata: a new tag is put in front of the tags collected
\* so far.
TagsPrepended(m, attrs) ==
    LET property == FindAttr(attrs, "property")
        cont == FindAttr(attrs, "content")
    IN  IF property.some /\ cont.some
        THEN IF property.v = "og:title" THEN [m EXCEPT !.title = Some(cont.v)]
             ELSE IF property.v = "og:description"
                  THEN [m EXCEPT !.description = Some(cont.v)]
             ELSE IF property.v = "article:author"
                  THEN [m EXCEPT !.author = Some(cont.v)]
             ELSE IF property.v = "article:published_time"
                  THEN [m EXCEPT !.date = Some(cont.v)]
             ELSE IF property.v = "article:tag"
                  THEN [m EXCEPT !.tags = <<cont.v>> \o @]
             ELSE m
        ELSE m

\* extract_metadata, on the metadata accumulated so far
extract_metadata(m, attrs) ==
    LET property == FindAttr(attrs, "property")
        cont == FindAttr(attrs, "content")
    IN  IF property.some /\ cont.some
        THEN IF property.v = "og:title" THEN [m EXCEPT !.title = Some(cont.v)]
             ELSE IF property.v = "og:description"
                  THEN [m EXCEPT !.description = Some(cont.v)]
             ELSE IF property.v = "article:author"
                  THEN [m EXCEPT !.author = Some(cont.v)]
             ELSE IF property.v = "article:published_time"
                  THEN [m EXCEPT !.date = Some(cont.v)]
             ELSE IF property.v = "article:tag"
                  THEN [m EXCEPT !.tags = Append(@, cont.v)]
             ELSE m
        ELSE m

\* the `meta` arm (taken only with include_metadata)
Meta(e) ==
    /\ VisitsElement(e, "meta")
    /\ metadata' = extract_metadata(metadata, e.attrs)
    /\ nodes' = nodes + 1
    /\ handle' = e
    /\ UNCHANGED <<config, content, list_vars, table_vars, in_code_block, stack,
                   pc, out, http_vars>>

\* `pre` arm up to process_children
EnterPre(e) ==
    /\ VisitsElement(e, "pre")
    /\ CanDescend
    /\ in_code_block' = TRUE
    /\ LET class == FindAttr(e.attrs, "class")
           lang == IF class.some THEN FindLanguage(class.v) ELSE None
       IN  content' = add_double_newline(content) \o BT \o BT \o BT
                         \o (IF lang.some THEN lang.v ELSE "") \o "\n"
    /\ stack' = Push(Frame("pre", e.tag))
    /\ nodes' = nodes + 1
    /\ handle' = e
    /\ UNCHANGED <<config, list_vars, table_vars, metadata, pc, out, http_vars>>

\* `pre` arm after process_children
LeavePre ==
    /\ Leaving("pre")
    /\ content' = add_newline(content \o "\n" \o BT \o BT \o BT)
    /\ in_code_block' = FALSE
    /\ stack' = Pop
    /\ UNCHANGED <<config, handle, list_vars, table_vars, metadata, nodes, pc, out,
                   http_vars>>

\* `code` arm up to process_children
EnterCode(e) ==
    /\ VisitsElement(e, "code")
    /\ CanDescend
    /\ stack' = Push([Frame("code", e.tag) EXCEPT !.was_in_code = in_code_block])
    /\ in_code_block' = TRUE
    /\ content' = content \o BT
    /\ nodes' = nodes + 1
    /\ handle' = e
    /\ UNCHANGED <<config, list_vars, table_vars, metadata, pc, out, http_vars>>

\* `code` arm after process_children
LeaveCode ==
    /\ Leaving("code")
    /\ content' = content \o BT
    /\ in_code_block' = Top.was_in_code
    /\ stack' = Pop
    /\ UNCHANGED <<config, handle, list_vars, table_vars, metadata, nodes, pc, out,
                   http_vars>>

\* `table` arm up to process_children (table_columns is never filled)
EnterTable(e) ==
    /\ VisitsElement(e, "table")
    /\ CanDescend
    /\ in_table' = TRUE
    /\ table_rows' = <<>>
    /\ stack' = Push(Frame("table", e.tag))
    /\ nodes' = nodes + 1
    /\ handle' = e
    /\ UNCHANGED <<config, content, list_vars, current_row, current_cell, metadata,
                   in_code_block, pc, out, http_vars>>

\* `table` arm after process_children: format_table, then in_table = false
LeaveTable ==
    /\ Leaving("table")
    /\ IF format_table_panics(table_rows)
       THEN pc' = "aborted" /\ UNCHANGED <<content, in_table, stack>>
       ELSE /\ content' = format_table(content, table_rows)
            /\ in_table' = FALSE
            /\ stack' = Pop
            /\ pc' = pc
    /\ UNCHANGED <<config, handle, list_vars, table_rows, current_row, current_cell,
                   metadata, in_code_block, nodes, out, http_vars>>

\* `tr` arm (taken only in table mode) up to process_children
EnterRow(e) ==
    /\ VisitsElement(e, "tr")
    /\ CanDescend
    /\ current_row' = <<>>
    /\ stack' = Push(Frame("tr", e.tag))
    /\ nodes' = nodes + 1
    /\ handle' = e
    /\ UNCHANGED <<config, content, list_vars, in_table, table_rows, current_cell,
                   metadata, in_code_block, pc, out, http_vars>>

\* `tr` arm after process_children
LeaveRow ==
    /\ Leaving("tr")
    /\ table_rows' = IF current_row # <<>> THEN Append(table_rows, current_row)
                     ELSE table_rows
    /\ stack' = Pop
    /\ UNCHANGED <<config, handle, content, list_vars, in_table, current_row, current_cell,
                   metadata, in_code_block, nodes, pc, out, http_vars>>

\* `th` | `td` arm (taken only in table mode) up to process_children
EnterCell(e) ==
    /\ VisitsElement(e, "cell")
    /\ CanDescend
    /\ current_cell' = ""
    /\ stack' = Push(Frame("cell", e.tag))
    /\ nodes' = nodes + 1
    /\ handle' = e
    /\ UNCHANGED <<config, content, list_vars, in_table, table_rows, current_row,
                   metadata, in_code_block, pc, out, http_vars>>

\* `th` | `td` arm after process_children
LeaveCell ==
    /\ Leaving("cell")
    /\ current_row' = Append(current_row, Trim(current_cell))
    /\ stack' = Pop
    /\ UNCHANGED <<config, handle, content, list_vars, in_table, table_rows, current_cell,
                   metadata, in_code_block, nodes, pc, out, http_vars>>

\* the largest value of the 8-bit counter of ListType::Ordered(u8)
U8Max == 255

\* process_list up to its loop over the children
EnterList(e) ==
    /\ Visits(e) /\ e.kind = "element" /\ Arm(e.tag) \in {"ul", "ol"}
    /\ CanDescend
    /\ LET list_type == IF Arm(e.tag) = "ul" THEN Unordered ELSE Ordered(1)
       IN  /\ list_type_stack' = Append(list_type_stack, list_type)
           /\ indent_level' = indent_level + IndentStep(list_type)
           /\ stack' = Push([Frame("list", e.tag) EXCEPT
                                !.list_type = list_type,
                                !.current_count =
                                    IF list_type.kind = "Ordered"
                                    THEN list_type.start ELSE 1])
    /\ nodes' = nodes + 1
    /\ handle' = e
    /\ UNCHANGED <<config, content, table_vars, metadata, in_code_block, pc, out,
                   http_vars>>

\* the marker process_list writes in front of an item
ItemPrefix(list_type, current_count) ==
    IF list_type.kind = "Unordered" THEN "* "
    ELSE Decimal(current_count) \o ". "

\* loop body of process_list for an `li` child, up to the children of the
\* item: indentation and marker, then process_node(child), where `li` takes
\* the `_` arm
ListItem(e) ==
    /\ Visiting /\ Top.arm = "list"
    /\ e.kind = "element" /\ e.tag = "li"
    /\ CanDescend
    /\ content' = content \o Repeat(" ", indent_level)
                      \o ItemPrefix(Top.list_type, Top.current_count)
    /\ stack' = Append([stack EXCEPT ![Len(stack)].items = @ + 1],
                       Frame("item", e.tag))
    /\ nodes' = nodes + 1
    /\ handle' = e
    /\ UNCHANGED <<config, list_vars, table_vars, metadata, in_code_block, pc, out,
                   http_vars>>

\* a child of a list that is not an `li` element: the loop of process_list
\* passes over it
SkipListChild(e) ==
    /\ Visiting /\ Top.arm = "list"
    /\ ~(e.kind = "element" /\ e.tag = "li")
    /\ nodes' = nodes + 1
    /\ handle' = e
    /\ UNCHANGED <<config, content, list_vars, table_vars, metadata,
                   in_code_block, stack, pc, out, http_vars>>

\* `current_count += 1` on a u8: past 255 a build with overflow checks
\* panics, a build without them wraps to 0
CountOutcomes(current_count) ==
    IF current_count < U8Max
    THEN {[abort |-> FALSE, count |-> current_count + 1]}
    ELSE {[abort |-> FALSE, count |-> 0], [abort |-> TRUE, count |-> 0]}

\* loop body of process_list after process_node(child)
LeaveItem ==
    /\ Leaving("item")
    /\ \E o \in CountOutcomes(stack[Len(stack) - 1].current_count) :
          IF o.abort
          THEN pc' = "aborted" /\ UNCHANGED <<content, stack>>
          ELSE /\ content' = add_newline(content)
               /\ stack' = [Pop EXCEPT ![Len(stack) - 1].current_count = o.count]
               /\ pc' = pc
    /\ UNCHANGED <<config, handle, list_vars, table_vars, metadata, in_code_block, nodes,
                   out, http_vars>>

\* process_list after its loop; `indent_level -= step` panics on underflow
LeaveList ==
    /\ Leaving("list")
    /\ IF indent_level < IndentStep(Top.list_type)
       THEN pc' = "aborted" /\ UNCHANGED <<content, list_vars, stack>>
       ELSE /\ list_type_stack' = SubSeq(list_type_stack, 1, Len(list_type_stack) - 1)
            /\ indent_level' = indent_level - IndentStep(Top.list_type)
            /\ content' = add_newline(content)
            /\ stack' = Pop
            /\ pc' = pc
    /\ UNCHANGED <<config, handle, table_vars, metadata, in_code_block, nodes, out,
                   http_vars>>

\* INLINE_TAGS arm up to process_children
EnterInline(e) ==
    /\ VisitsElement(e, "inline")
    /\ CanDescend
    /\ content' = content \o INLINE_TAGS[e.tag][1]
    /\ stack' = Push(Frame("inline", e.tag))
    /\ nodes' = nodes + 1
    /\ handle' = e
    /\ UNCHANGED <<config, list_vars, table_vars, metadata, in_code_block, pc, out,
                   http_vars>>

\* INLINE_TAGS arm after process_children
LeaveInline ==
    /\ Leaving("inline")
    /\ content' = content \o INLINE_TAGS[Top.tag][2]
    /\ stack' = Pop
    /\ UNCHANGED <<config, handle, list_vars, table_vars, metadata, in_code_block, nodes,
                   pc, out, http_vars>>

\* BLOCK_TAGS arm up to process_children
EnterBlock(e) ==
    /\ VisitsElement(e, "block")
    /\ CanDescend
    /\ content' = add_double_newline(content)
    /\ stack' = Push(Frame("block", e.tag))
    /\ nodes' = nodes + 1
    /\ handle' = e
    /\ UNCHANGED <<config, list_vars, table_vars, metadata, in_code_block, pc, out,
                   http_vars>>

\* BLOCK_TAGS arm after process_children
LeaveBlock ==
    /\ Leaving("block")
    /\ content' = add_double_newline(content)
    /\ stack' = Pop
    /\ UNCHANGED <<config, handle, list_vars, table_vars, metadata, in_code_block, nodes,
                   pc, out, http_vars>>

\* the `_` arm of `match tag_name`: process_children only
EnterOther(e) ==
    /\ VisitsElement(e, "other")
    /\ CanDescend
    /\ stack' = Push(Frame("other", e.tag))
    /\ nodes' = nodes + 1
    /\ handle' = e
    /\ UNCHANGED <<config, content, list_vars, table_vars, metadata,
                   in_code_block, pc, out, http_vars>>

\* return of process_node for an element of the `_` arm, also for an `li`
\* met outside process_list
LeaveOther ==
    /\ Leaving("other")
    /\ stack' = Pop
    /\ UNCHANGED <<config, handle, content, list_vars, table_vars, metadata,
                   in_code_block, nodes, pc, out, http_vars>>

\* html_to_markdown after process_node(&dom.document): formatter.result()
Finish ==
    /\ Leaving("doc")
    /\ out' = result
    /\ pc' = "done"
    /\ UNCHANGED <<config, handle, content, list_vars, table_vars, metadata,
                   in_code_block, stack, nodes, http_vars>>

----------------------------------------------------------------------------
(* main, fetch_and_convert and fetch_url_with_timeout *)

\* A wrong retry budget: one attempt more than the source allows.
OneRetryMore == 3 + 1

\* `let max_retries = 3`
max_retries == 3

\* 2_u64.pow(n)
RECURSIVE Pow2(_)
Pow2(n) == IF n = 0 THEN 1 ELSE 2 * Pow2(n - 1)

\* the argument of Delay::from: 1000 * 2^retry_count milliseconds
BackoffMs(count) == 1000 * Pow2(count)

SendEvent(o) == [ev |-> "send", outcome |-> o, ms |-> 0]
DelayEvent(ms) == [ev |-> "delay", outcome |-> "", ms |-> ms]

NoReply == [status |-> 0, cors |-> FALSE, body |-> "", markdown |-> FALSE]
NotFetched == [returned |-> FALSE, ok |-> FALSE, why |-> ""]
FetchOk == [returned |-> TRUE, ok |-> TRUE, why |-> ""]
FetchErr(why) == [returned |-> TRUE, ok |-> FALSE, why |-> why]

\* Response::error(msg, status)
ErrorReply(status, msg) ==
    [status |-> status, cors |-> FALSE, body |-> msg, markdown |-> FALSE]

\* the arm of `match req.method()` that the request takes
MethodArm(method) == IF method = "POST" THEN "post" ELSE "not_allowed"

\* main, Method::Post arm up to fetch_and_convert: decode the JSON body, then
\* fetch_url_with_timeout builds its request (an unusable URL ends it with Err)
ReceivePost ==
    /\ pc = "main"
    /\ MethodArm(request.method) = "post"
    /\ IF ~request.json_ok
       THEN /\ reply' = ErrorReply(400, "Invalid request format")
            /\ pc' = "replied"
            /\ fetched' = fetched
       ELSE IF ~request.url_ok
       THEN /\ fetched' = FetchErr("request")
            /\ pc' = "failed"
            /\ reply' = reply
       ELSE /\ pc' = "loop"
            /\ UNCHANGED <<fetched, reply>>
    /\ UNCHANGED <<config, handle, fmt_vars, stack, nodes, out, request, retry_count, log, resp>>

\* main, the `_` arm of `match req.method()`
RejectMethod ==
    /\ pc = "main"
    /\ MethodArm(request.method) = "not_allowed"
    /\ reply' = ErrorReply(405, "Method Not Allowed")
    /\ pc' = "replied"
    /\ UNCHANGED <<config, handle, fmt_vars, stack, nodes, out, request, retry_count, log, resp,
                   fetched>>

\* What one iteration can meet: `request.clone()` fails, or the send fails
\* with a network error, or it brings a response with a status, whose
\* content-type header can or cannot be read, does or does not contain
\* text/html, and whose body can or cannot be read and does or does not
\* contain "captcha".
Statuses == {200, 204, 304, 403, 404, 429, 500}

CloneError ==
    [clone_ok |-> FALSE, net_ok |-> FALSE, status |-> 0, header_ok |-> FALSE,
     html |-> FALSE, text_ok |-> FALSE, captcha |-> FALSE]

NetworkError ==
    [clone_ok |-> TRUE, net_ok |-> FALSE, status |-> 0, header_ok |-> FALSE,
     html |-> FALSE, text_ok |-> FALSE, captcha |-> FALSE]

Responses ==
    [clone_ok : {TRUE}, net_ok : {TRUE}, status : Statuses, header_ok : BOOLEAN,
     html : BOOLEAN, text_ok : BOOLEAN, captcha : BOOLEAN]

Outcomes == {CloneError, NetworkError} \cup Responses

\* before the first send
NoResponse == CloneError

\* a 200 text/html response whose body is read and holds no "captcha"
DocumentResponse ==
    [clone_ok |-> TRUE, net_ok |-> TRUE, status |-> 200, header_ok |-> TRUE,
     html |-> TRUE, text_ok |-> TRUE, captcha |-> FALSE]

\* a label of the outcome, for the log
OutcomeName(o) ==
    IF ~o.net_ok THEN "network error"
    ELSE IF ~o.header_ok THEN "header error"
    ELSE IF o.status \in {403, 429} THEN "denied"
    ELSE IF o.status = 200 /\ o.html
         THEN (IF ~o.text_ok THEN "text error"
               ELSE IF o.captcha THEN "captcha" ELSE "document")
    ELSE "response"

\* one iteration of `while retry_count < max_retries`, and, when the loop is
\* left by `break`, the code after the loop
Attempt(o) ==
    /\ pc = "loop"
    /\ retry_count < max_retries
    /\ IF ~o.clone_ok
       THEN \* `request.clone()?`: nothing is sent
            /\ fetched' = FetchErr("clone")
            /\ pc' = "failed"
            /\ UNCHANGED <<retry_count, log, resp>>
       ELSE IF ~o.net_ok
       THEN \* Err(e) arm
            /\ resp' = o
            /\ retry_count' = retry_count + 1
            /\ IF retry_count + 1 = max_retries
               THEN /\ fetched' = FetchErr("attempts")
                    /\ pc' = "failed"
                    /\ log' = Append(log, SendEvent(OutcomeName(o)))
               ELSE /\ log' = log \o <<SendEvent(OutcomeName(o)),
                                        DelayEvent(BackoffMs(retry_count + 1))>>
                    /\ UNCHANGED <<fetched, pc>>
       ELSE /\ log' = Append(log, SendEvent(OutcomeName(o)))
            /\ resp' = o
            /\ IF ~o.header_ok
               THEN \* `resp.headers().get("content-type")?`
                    /\ fetched' = FetchErr("header")
                    /\ pc' = "failed"
                    /\ retry_count' = retry_count
               ELSE IF o.status = 403 \/ o.status = 429
               THEN /\ retry_count' = retry_count + 1
                    /\ UNCHANGED <<fetched, pc>>
               ELSE IF o.status = 200 /\ o.html
               THEN IF ~o.text_ok
                    THEN \* `resp.text().await?`
                         /\ fetched' = FetchErr("text")
                         /\ pc' = "failed"
                         /\ retry_count' = retry_count
                    ELSE IF o.captcha
                    THEN /\ retry_count' = retry_count + 1
                         /\ UNCHANGED <<fetched, pc>>
                    ELSE /\ fetched' = FetchOk
                         /\ pc' = "walk"
                         /\ retry_count' = retry_count
               ELSE \* response = Some(resp); break; then the code after the loop
                    /\ retry_count' = retry_count
                    /\ IF o.status >= 400
                       THEN fetched' = FetchErr("status") /\ pc' = "failed"
                       ELSE IF ~o.text_ok
                       THEN fetched' = FetchErr("text") /\ pc' = "failed"
                       ELSE fetched' = FetchOk /\ pc' = "walk"
    /\ UNCHANGED <<config, handle, fmt_vars, stack, nodes, out, request, reply>>

\* the loop condition fails with `response` still None
LoopExit ==
    /\ pc = "loop"
    /\ ~(retry_count < max_retries)
    /\ fetched' = FetchErr("retries")
    /\ pc' = "failed"
    /\ UNCHANGED <<config, handle, fmt_vars, stack, nodes, out, request, retry_count, log, resp,
                   reply>>

\* main, Ok(markdown) arm
ReplyOk ==
    /\ pc = "done"
    /\ reply' = [status |-> 200, cors |-> TRUE, body |-> out, markdown |-> TRUE]
    /\ pc' = "replied"
    /\ UNCHANGED <<config, handle, fmt_vars, stack, nodes, out, request, retry_count, log, resp,
                   fetched>>

\* main, Err(e) arm: fetch_and_convert returned the error of the fetch
ReplyError ==
    /\ pc = "failed"
    /\ reply' = ErrorReply(500, "Conversion failed")
    /\ pc' = "replied"
    /\ UNCHANGED <<config, handle, fmt_vars, stack, nodes, out, request, retry_count, log, resp,
                   fetched>>

----------------------------------------------------------------------------
(* Initial states *)

\* #[derive(Default)] of ConvertConfig and CleaningRules
DefaultConfig ==
    [include_links |-> FALSE, clean_whitespace |-> FALSE,
     preserve_headings |-> FALSE, include_metadata |-> FALSE,
     max_heading_level |-> 0, remove_scripts |-> FALSE, remove_styles |-> FALSE,
     remove_comments |-> FALSE, preserve_line_breaks |-> FALSE]

PostRequest(page) ==
    [method |-> "POST", json_ok |-> TRUE, url_ok |-> TRUE, page |-> page]

\* MarkdownFormatter::new
NewFormatter ==
    /\ content = ""
    /\ indent_level = 0
    /\ list_type_stack = <<>>
    /\ in_table = FALSE
    /\ table_rows = <<>>
    /\ current_row = <<>>
    /\ current_cell = ""
    /\ metadata = NewMetadata
    /\ in_code_block = FALSE

\* NodeData::Document, the node html_to_markdown starts process_node on
DocumentNode == [kind |-> "document", tag |-> "", attrs |-> <<>>, text |-> ""]

\* a request arrives at main with one of the given configurations
InitRequest(requests, configs) ==
    /\ request \in requests
    /\ config \in configs
    /\ pc = "main"
    /\ retry_count = 0
    /\ log = <<>>
    /\ fetched = NotFetched
    /\ resp = NoResponse
    /\ reply = NoReply
    /\ NewFormatter
    /\ stack = <<DocFrame>>
    /\ nodes = 0
    /\ handle = DocumentNode
    /\ out = ""

\* html_to_markdown starts on one of the given pages, which the first send
\* returned
InitWalk(pages, configs) ==
    /\ request \in {PostRequest(page) : page \in pages}
    /\ config \in configs
    /\ pc = "walk"
    /\ retry_count = 0
    /\ log = <<SendEvent("document")>>
    /\ fetched = FetchOk
    /\ resp = DocumentResponse
    /\ reply = NoReply
    /\ NewFormatter
    /\ stack = <<DocFrame>>
    /\ nodes = 0
    /\ handle = DocumentNode
    /\ out = ""

----------------------------------------------------------------------------
(* Specifications *)

WithLinks(b) == [DefaultConfig EXCEPT !.include_links = b]

Whitespace(clean, keep) ==
    [DefaultConfig EXCEPT !.clean_whitespace = clean, !.preserve_line_breaks = keep]

Headings(keep, max) ==
    [DefaultConfig EXCEPT !.preserve_headings = keep, !.max_heading_level = max]

AllOn ==
    [include_links |-> TRUE, clean_whitespace |-> TRUE,
     preserve_headings |-> TRUE, include_metadata |-> TRUE,
     max_heading_level |-> 6, remove_scripts |-> TRUE, remove_styles |-> TRUE,
     remove_comments |-> TRUE, preserve_line_breaks |-> FALSE]

\* the returns of process_node and the end of the walk
Returns ==
    \/ LeaveHeader
    \/ LeaveLink
    \/ LeavePre
    \/ LeaveCode
    \/ LeaveTable
    \/ LeaveRow
    \/ LeaveCell
    \/ LeaveItem
    \/ LeaveList
    \/ LeaveInline
    \/ LeaveBlock
    \/ LeaveOther
    \/ Finish

\* The walk over lists, tables, headings, and elements with and without
\* their attributes, with everything switched off and with everything
\* switched on.
Init == InitWalk({"lists", "rows", "attrs", "headings"}, {DefaultConfig, AllOn})

Next ==
    \/ \E e \in Offered : SkipNode(e)
    \/ \E e \in Offered : LeafNode(e)
    \/ \E e \in Offered : Text(e)
    \/ \E e \in Offered : EnterHeader(e)
    \/ \E e \in Offered : DropHeader(e)
    \/ \E e \in Offered : Image(e)
    \/ \E e \in Offered : EnterPre(e)
    \/ \E e \in Offered : EnterTable(e)
    \/ \E e \in Offered : EnterRow(e)
    \/ \E e \in Offered : EnterCell(e)
    \/ \E e \in Offered : EnterList(e)
    \/ \E e \in Offered : ListItem(e)
    \/ \E e \in Offered : SkipListChild(e)
    \/ \E e \in Offered : EnterOther(e)
    \/ LeaveHeader
    \/ LeavePre
    \/ LeaveTable
    \/ LeaveRow
    \/ LeaveCell
    \/ LeaveItem
    \/ LeaveList
    \/ LeaveOther
    \/ Finish

Spec == Init /\ [][Next]_vars

\* lists of every nesting
InitLists == InitWalk({"lists"}, {DefaultConfig})

NextLists ==
    \/ \E e \in Offered : EnterList(e)
    \/ \E e \in Offered : ListItem(e)
    \/ \E e \in Offered : SkipListChild(e)
    \/ \E e \in Offered : EnterOther(e)
    \/ \E e \in Offered : Text(e)
    \/ LeaveItem
    \/ LeaveList
    \/ LeaveOther
    \/ Finish

SpecLists == InitLists /\ [][NextLists]_vars

\* one ordered list of up to LongListSize - 1 empty items
InitLongList == InitWalk({"long list"}, {DefaultConfig})

NextLongList ==
    \/ \E e \in Offered : EnterList(e)
    \/ \E e \in Offered : ListItem(e)
    \/ LeaveItem
    \/ LeaveList
    \/ Finish

SpecLongList == InitLongList /\ [][NextLongList]_vars

\* links with and without href, in running text and in paragraphs
InitLinks == InitWalk({"links"}, {WithLinks(TRUE), WithLinks(FALSE)})

NextLinks ==
    \/ \E e \in Offered : EnterLink(e)
    \/ \E e \in Offered : EnterBlock(e)
    \/ \E e \in Offered : Text(e)
    \/ LeaveLink
    \/ LeaveBlock
    \/ Finish

SpecLinks == InitLinks /\ [][NextLinks]_vars

\* links inside the cells of a table
InitCellLinks == InitWalk({"cell links"}, {WithLinks(TRUE)})

NextCellLinks ==
    \/ \E e \in Offered : EnterTable(e)
    \/ \E e \in Offered : EnterRow(e)
    \/ \E e \in Offered : EnterCell(e)
    \/ \E e \in Offered : EnterLink(e)
    \/ \E e \in Offered : Text(e)
    \/ LeaveTable
    \/ LeaveRow
    \/ LeaveCell
    \/ LeaveLink
    \/ Finish

SpecCellLinks == InitCellLinks /\ [][NextCellLinks]_vars

\* text with spaces and line breaks, under the four whitespace settings
InitText ==
    InitWalk({"text"}, {Whitespace(clean, keep) : clean \in BOOLEAN, keep \in BOOLEAN})

NextText ==
    \/ \E e \in Offered : EnterBlock(e)
    \/ \E e \in Offered : EnterOther(e)
    \/ \E e \in Offered : Text(e)
    \/ LeaveBlock
    \/ LeaveOther
    \/ Finish

SpecText == InitText /\ [][NextText]_vars

\* tables of rows of cells of text
InitTable == InitWalk({"table"}, {DefaultConfig})

NextTable ==
    \/ \E e \in Offered : EnterTable(e)
    \/ \E e \in Offered : EnterRow(e)
    \/ \E e \in Offered : EnterCell(e)
    \/ \E e \in Offered : Text(e)
    \/ LeaveTable
    \/ LeaveRow
    \/ LeaveCell
    \/ Finish

SpecTable == InitTable /\ [][NextTable]_vars

\* headings of several levels, under several caps
InitHeadings ==
    InitWalk({"headings"}, {Headings(keep, max) : keep \in BOOLEAN, max \in {0, 2, 6}})

NextHeadings ==
    \/ \E e \in Offered : EnterHeader(e)
    \/ \E e \in Offered : DropHeader(e)
    \/ \E e \in Offered : Text(e)
    \/ LeaveHeader
    \/ Finish

SpecHeadings == InitHeadings /\ [][NextHeadings]_vars

\* tables whose cells hold text or another table
InitRows == InitWalk({"rows"}, {DefaultConfig})

NextRows ==
    \/ \E e \in Offered : EnterTable(e)
    \/ \E e \in Offered : EnterRow(e)
    \/ \E e \in Offered : EnterCell(e)
    \/ \E e \in Offered : EnterBlock(e)
    \/ \E e \in Offered : Text(e)
    \/ LeaveTable
    \/ LeaveRow
    \/ LeaveCell
    \/ LeaveBlock
    \/ Finish

SpecRows == InitRows /\ [][NextRows]_vars

\* a table with a table of one or more rows in the first cell of its second
\* row, and rows and cells after it
InitNestedTable == InitWalk({"nested table"}, {DefaultConfig})

NextNestedTable ==
    \/ \E e \in Offered : EnterTable(e)
    \/ \E e \in Offered : EnterRow(e)
    \/ \E e \in Offered : EnterCell(e)
    \/ \E e \in Offered : EnterBlock(e)
    \/ \E e \in Offered : Text(e)
    \/ LeaveTable
    \/ LeaveRow
    \/ LeaveCell
    \/ LeaveBlock
    \/ Finish

SpecNestedTable == InitNestedTable /\ [][NextNestedTable]_vars

\* `pre` and `code` elements of every nesting around text, with whitespace
\* cleaning
InitCode == InitWalk({"code"}, {Whitespace(TRUE, FALSE), Whitespace(TRUE, TRUE)})

NextCode ==
    \/ \E e \in Offered : EnterPre(e)
    \/ \E e \in Offered : EnterCode(e)
    \/ \E e \in Offered : Text(e)
    \/ LeavePre
    \/ LeaveCode
    \/ Finish

SpecCode == InitCode /\ [][NextCode]_vars

\* blocks, headings, lists, tables, images and text, blank lines between them
BoundaryConfig(clean) ==
    [DefaultConfig EXCEPT !.clean_whitespace = clean, !.preserve_headings = TRUE,
                          !.max_heading_level = 6]

InitBoundaries == InitWalk({"boundaries"}, {BoundaryConfig(clean) : clean \in BOOLEAN})

NextBoundaries ==
    \/ \E e \in Offered : EnterBlock(e)
    \/ \E e \in Offered : EnterHeader(e)
    \/ \E e \in Offered : Image(e)
    \/ \E e \in Offered : EnterList(e)
    \/ \E e \in Offered : ListItem(e)
    \/ \E e \in Offered : EnterTable(e)
    \/ \E e \in Offered : EnterRow(e)
    \/ \E e \in Offered : EnterCell(e)
    \/ \E e \in Offered : Text(e)
    \/ LeaveBlock
    \/ LeaveHeader
    \/ LeaveItem
    \/ LeaveList
    \/ LeaveTable
    \/ LeaveRow
    \/ LeaveCell
    \/ Finish

SpecBoundaries == InitBoundaries /\ [][NextBoundaries]_vars

\* emphasis elements in running text and in the cells of a table
InitCellEmphasis == InitWalk({"cell emphasis"}, {DefaultConfig})

NextCellEmphasis ==
    \/ \E e \in Offered : EnterTable(e)
    \/ \E e \in Offered : EnterRow(e)
    \/ \E e \in Offered : EnterCell(e)
    \/ \E e \in Offered : EnterInline(e)
    \/ \E e \in Offered : Text(e)
    \/ LeaveTable
    \/ LeaveRow
    \/ LeaveCell
    \/ LeaveInline
    \/ Finish

SpecCellEmphasis == InitCellEmphasis /\ [][NextCellEmphasis]_vars

\* meta elements with and without a recognized property and a content, with
\* metadata extraction and whitespace cleaning on and off
MetaConfig(extract, clean) ==
    [DefaultConfig EXCEPT !.include_metadata = extract, !.clean_whitespace = clean]

InitMeta ==
    InitWalk({"meta"}, {MetaConfig(extract, clean) : extract \in BOOLEAN,
                                                     clean \in BOOLEAN})

NextMeta ==
    \/ \E e \in Offered : Meta(e)
    \/ \E e \in Offered : EnterOther(e)
    \/ \E e \in Offered : Text(e)
    \/ LeaveOther
    \/ Finish

SpecMeta == InitMeta /\ [][NextMeta]_vars

\* Requests of every kind arriving at main, the fetch with every outcome of
\* each send, and the conversion of a page of plain text.  The runtime drives
\* the handler's future until it completes, so a step that can be taken is
\* taken.
Methods == {"POST", "GET", "OPTIONS", "PUT"}

InitHttp ==
    InitRequest([method : Methods, json_ok : BOOLEAN, url_ok : BOOLEAN,
                 page : {"plain"}],
                {DefaultConfig})

NextHttp ==
    \/ ReceivePost
    \/ RejectMethod
    \/ \E o \in Outcomes : Attempt(o)
    \/ LoopExit
    \/ \E e \in Offered : Text(e)
    \/ Finish
    \/ ReplyOk
    \/ ReplyError

SpecHttp == InitHttp /\ [][NextHttp]_vars /\ WF_vars(NextHttp)

----------------------------------------------------------------------------
(* Properties.  Each is stated from the behaviour the documentation asks    *)
(* for, with helper operators of its own, and checked against the actions   *)
(* above.                                                                   *)

\* C1: For every configuration and every finite well-formed tree the
\* conversion never panics: the walk is never aborted by an arithmetic
\* overflow or underflow, an index out of range or a failed unwrap.
C1_ConversionNeverPanics == pc # "aborted"

\* The walk stopped by `current_count += 1` after the 255th item of one list.
C1_AbortedAfter255Items ==
    /\ pc = "aborted"
    /\ Top.arm = "item"
    /\ stack[Len(stack) - 1].items = 255
    /\ stack[Len(stack) - 1].current_count = 255

\* C2: When process_link returns for an `a` element without href, the
\* rendered text of its children is in the output as plain text, after what
\* was written before the link, with include_links on and off.
C2_LinkWithoutHrefKeepsText ==
    [][(LeaveLink /\ ~Top.href.some) =>
          content' = (IF Top.side THEN Top.old_content ELSE "") \o content]_vars

\* `<a>x</a>` converted with include_links: the output is empty.
C2_TextOfLinkDropped ==
    /\ pc = "done"
    /\ config.include_links
    /\ nodes = 2
    /\ handle = TextNode("x")
    /\ out = ""

\* the rendering of the children of the link that is about to return: text in
\* table mode is collected in the cell (which holds nothing but the link),
\* other text in the buffer
C3_Children == IF in_table THEN current_cell ELSE content

C3_Link(text, href) ==
    IF text # "" /\ text # href
    THEN "[" \o text \o "](" \o href \o ")"
    ELSE "<" \o href \o ">"

\* C3: With include_links, when process_link returns for an `a` element with
\* an href, the link is `[text](href)` if the trimmed rendering of its
\* children is non-empty and differs from the href, and `<href>` otherwise;
\* it is written where the text of the link belongs (in a table cell: into
\* the cell), and the output written before the link is left unchanged.
C3_LinkEmittedInPlace ==
    [][(LeaveLink /\ Top.side /\ Top.href.some) =>
          LET link == C3_Link(Trim(C3_Children), Top.href.v)
          IN  IF in_table
              THEN content' = Top.old_content /\ current_cell' = link
              ELSE content' = Top.old_content \o link]_vars

\* `<table><tr><td><a href="u">x</a></td></tr></table>` converted with
\* include_links: an autolink in front of the table, the bare text in the cell.
C3_AutolinkOutsideCell ==
    /\ pc = "done"
    /\ nodes = 5
    /\ table_rows = << <<"x">> >>
    /\ out = "<u>\n| x |\n| - |"

RECURSIVE C4_HasBreak(_)
C4_HasBreak(s) == s # "" /\ (Head(s) = "\n" \/ C4_HasBreak(Tail(s)))

RECURSIVE C4_ReplaceBreakRuns(_)
\* s with every maximal whitespace run that contains a line break replaced by
\* two newlines, and every other whitespace run kept
C4_ReplaceBreakRuns(s) ==
    IF s = "" THEN ""
    ELSE IF IsWs(Head(s))
         THEN LET rest == TrimStart(s)
                  run == SubSeq(s, 1, Len(s) - Len(rest))
              IN  (IF C4_HasBreak(run) THEN "\n\n" ELSE run)
                  \o C4_ReplaceBreakRuns(rest)
    ELSE Head(s) \o C4_ReplaceBreakRuns(Tail(s))

\* C4: The finalizer returns the trimmed buffer; if clean_whitespace is set
\* and preserve_line_breaks is not, exactly the whitespace runs that span a
\* line break are replaced by two newlines, and a run without a line break
\* stays as it is.
C4_OnlyBreakRunsReplaced ==
    pc = "done" =>
        LET final_content ==
                (IF config.include_metadata THEN format_metadata(metadata) ELSE "")
                \o Trim(content)
        IN  out = IF config.clean_whitespace /\ ~config.preserve_line_breaks
                  THEN Trim(C4_ReplaceBreakRuns(final_content))
                  ELSE Trim(final_content)

\* The text `a b` finalized with clean_whitespace and without
\* preserve_line_breaks: the space has become two newlines.
C4_SpaceBecomesBlankLine ==
    /\ pc = "done"
    /\ config.clean_whitespace
    /\ ~config.preserve_line_breaks
    /\ content = "a b"
    /\ out = "a\n\nb"

\* C5: The indentation and marker of every list item start at the beginning
\* of an output line, and every item ends with a line break.
C5_ItemsOnTheirOwnLines ==
    [][/\ (\E e \in Offered : ListItem(e)) =>
              (content = "" \/ EndsWithNewline(content))
       /\ (LeaveItem /\ pc' = "walk") => EndsWithNewline(content')]_vars

\* `<ul><li>A<ul><li>B</li></ul></li></ul>`: both items on one line.
C5_NestedItemOnSameLine ==
    /\ pc = "done"
    /\ nodes = 6
    /\ out = "* A    * B"

\* C6: In an ordered list the k-th direct `li` child is labelled `k. `,
\* whatever lists its items contain or follow; a child that is not an `li`
\* is neither rendered nor counted.
C6_ItemsNumberedFromOne ==
    [][/\ ((\E e \in Offered : ListItem(e)) /\ Top.list_type.kind = "Ordered") =>
              content' = content \o Repeat(" ", indent_level)
                             \o Decimal(Top.items + 1) \o ". "
       /\ (\E e \in Offered : SkipListChild(e)) =>
              (content' = content /\ stack' = stack)]_vars

\* The 256th item of an ordered list, labelled `0. `.
C6_Item256LabelledZero ==
    /\ pc = "walk"
    /\ Top.arm = "item"
    /\ stack[Len(stack) - 1].items = 256
    /\ stack[Len(stack) - 1].current_count = 0
    /\ SubSeq(content, Len(content) - 5, Len(content)) = "   0. "

\* the lengths of the cells of column i, over the rows that have such a cell
C7_CellLengths(rows, i) ==
    {Len(rows[k][i]) : k \in {r \in 1..Len(rows) : i <= Len(rows[r])}}

\* the width of column i: the maximum length of its cells
C7_Width(rows, i) ==
    CHOOSE w \in C7_CellLengths(rows, i) : \A v \in C7_CellLengths(rows, i) : v <= w

RECURSIVE C7_Cells(_, _, _)
\* the cells of a row from cell i on, each right-padded to its column width;
\* cells beyond the column count are left out
C7_Cells(row, rows, i) ==
    IF i > Len(row) \/ i > Len(rows[1]) THEN ""
    ELSE " " \o row[i] \o Repeat(" ", C7_Width(rows, i) - Len(row[i])) \o " |"
         \o C7_Cells(row, rows, i + 1)

RECURSIVE C7_Dashes(_, _)
C7_Dashes(rows, i) ==
    IF i > Len(rows[1]) THEN ""
    ELSE " " \o Repeat("-", C7_Width(rows, i)) \o " |" \o C7_Dashes(rows, i + 1)

RECURSIVE C7_Lines(_, _)
\* the lines of the rows from row r on
C7_Lines(rows, r) ==
    IF r > Len(rows) THEN ""
    ELSE "|" \o C7_Cells(rows[r], rows, 1) \o "\n" \o C7_Lines(rows, r + 1)

\* first row, separator row, remaining rows
C7_Table(rows) ==
    "|" \o C7_Cells(rows[1], rows, 1) \o "\n"
    \o "|" \o C7_Dashes(rows, 1) \o "\n"
    \o C7_Lines(rows, 2)

\* C7: When the `table` arm returns, the accumulated rows have been written
\* after a line break, without a panic: the first row, a separator row of
\* width-i dashes per column, then the remaining rows in order, each cell
\* right-padded to the maximum length of its column, cells beyond the length
\* of the first row left out; nothing is written for a table without rows.
\* Rows ["a","bb"], ["ccc","d"] give `| a   | bb |`, `| --- | -- |`,
\* `| ccc | d  |`.
C7_TableRendering ==
    [][LeaveTable =>
          /\ pc' = "walk"
          /\ content' = IF table_rows = <<>> THEN content
                        ELSE add_double_newline(content) \o C7_Table(table_rows)
          /\ table_rows = << <<"a", "bb">>, <<"ccc", "d">> >> =>
                content' = add_double_newline(content)
                               \o "| a   | bb |\n| --- | -- |\n| ccc | d  |\n"]_vars

\* The table of the rows ["a","bb"], ["ccc","d"], rendered.
C7_ExampleRendered ==
    /\ pc = "done"
    /\ table_rows = << <<"a", "bb">>, <<"ccc", "d">> >>
    /\ out = "| a   | bb |\n| --- | -- |\n| ccc | d  |"

\* the level of a heading element
C8_Level(tag) ==
    CASE tag = "h1" -> 1 [] tag = "h2" -> 2 [] tag = "h3" -> 3
      [] tag = "h4" -> 4 [] tag = "h5" -> 5 [] tag = "h6" -> 6

\* process_node is called on a heading element
C8_HeadingVisited ==
    /\ nodes' = nodes + 1
    /\ handle'.kind = "element"
    /\ handle'.tag \in HeadingTags

\* C8: A heading element is emitted, as `level` `#` characters and a space
\* followed by its children, if and only if preserve_headings is set and its
\* level is at most max_heading_level; otherwise nothing is written and its
\* children are not visited.
C8_HeadingCapping ==
    [][C8_HeadingVisited =>
          LET level == C8_Level(handle'.tag)
          IN  IF config.preserve_headings /\ level <= config.max_heading_level
              THEN /\ content' = add_double_newline(content)
                                     \o Repeat("#", level) \o " "
                   /\ stack' = Push(Frame("header", handle'.tag))
                   /\ pc' = "walk"
              ELSE /\ content' = content
                   /\ stack' = stack
                   /\ pc' = "walk"]_vars

\* With max_heading_level = 2: a heading above the cap that left nothing and
\* `<h2>T</h2>`, converted to `## T`.
C8_H3DroppedH2Emitted ==
    /\ pc = "done"
    /\ config.preserve_headings
    /\ config.max_heading_level = 2
    /\ nodes = 3
    /\ handle = TextNode("T")
    /\ out = "## T"

\* C9: An OPTIONS request is answered with an empty success response with
\* permissive cross-origin headers; method-not-allowed is the answer only to
\* methods other than POST and OPTIONS, and such a request triggers no fetch
\* and no conversion.
C9_PreflightAnswered ==
    /\ (pc = "replied" /\ request.method = "OPTIONS") =>
           (reply.status \in 200..299 /\ reply.cors /\ reply.body = "")
    /\ (pc = "replied" /\ reply.status = 405) =>
           /\ request.method \notin {"POST", "OPTIONS"}
           /\ log = <<>>
           /\ ~fetched.returned
           /\ nodes = 0

\* An OPTIONS request answered 405, without cross-origin headers.
C9_PreflightRejected ==
    /\ pc = "replied"
    /\ request.method = "OPTIONS"
    /\ reply.status = 405
    /\ ~reply.cors

\* the number of send attempts of the fetch
C10_Sends == Cardinality({i \in 1..Len(log) : log[i].ev = "send"})

\* C10: Whatever each send comes back with, the fetch makes at most 3 send
\* attempts and returns, with the document or with an error; once all three
\* tries are used up it returns an error; and an error of the fetch is
\* answered with status 500.
C10_BoundedRetries ==
    /\ [](/\ C10_Sends <= 3
          /\ retry_count <= 3
          /\ (retry_count = 3 /\ fetched.returned) => ~fetched.ok
          /\ (fetched.returned /\ ~fetched.ok) => pc \in {"failed", "replied"}
          /\ (pc = "replied" /\ fetched.returned /\ ~fetched.ok) =>
                 reply.status = 500)
    /\ (pc = "loop") ~> fetched.returned

\* Three sends denied with 403 or 429, the loop left without a response, and
\* the request answered 500.
C10_ThreeDenialsThen500 ==
    /\ retry_count = 3
    /\ log = <<SendEvent("denied"), SendEvent("denied"), SendEvent("denied")>>
    /\ pc = "replied"
    /\ reply.status = 500

\* the positions of the log that hold an event of the kind
C11_At(ev) == {i \in 1..Len(log) : log[i].ev = ev}

\* C11: Every retry of the fetch, whatever caused it, is preceded by a backoff
\* delay: no send attempt follows another send attempt directly; and each
\* delay is longer than the delays before it.
C11_BackoffBeforeEveryRetry ==
    /\ \A i \in C11_At("send") : i > 1 => log[i - 1].ev = "delay"
    /\ \A i \in C11_At("delay") : \A j \in C11_At("delay") :
           i < j => log[i].ms < log[j].ms

\* A send denied with 403 or 429, followed at once by the next send.
C11_RetryWithoutDelay ==
    /\ Len(log) = 2
    /\ log[1] = SendEvent("denied")
    /\ log[2].ev = "send"
    /\ retry_count >= 1

\* the latest send brought the full document of a successful response
C12_DocumentFetched ==
    /\ resp.net_ok
    /\ resp.header_ok
    /\ resp.status \in 200..299
    /\ resp.text_ok

\* the fetch ended on a network error, a status outside 2xx, used-up retries,
\* or a signal of bot detection (403, 429, a captcha page)
C12_FetchFailed ==
    /\ fetched.returned \/ pc = "walk"
    /\ \/ ~resp.net_ok
       \/ resp.status \notin 200..299
       \/ retry_count = 3
       \/ (resp.status = 200 /\ resp.html /\ resp.text_ok /\ resp.captcha)

\* C12: The conversion runs only after the fetch has returned the full
\* document of a successful (2xx) response; when the fetch ends with a
\* non-2xx status, a network error, used-up retries or a bot-detection
\* signal, no conversion runs, the request is answered with a failure and no
\* converted text is returned.
C12_ConvertsOnlySuccessfulFetch ==
    /\ (pc \in {"walk", "done"} \/ reply.markdown) =>
           (fetched.ok /\ C12_DocumentFetched)
    /\ C12_FetchFailed =>
           /\ pc \notin {"walk", "done"}
           /\ nodes = 0
           /\ out = ""
           /\ pc = "replied" => (reply.status >= 400 /\ ~reply.markdown)

\* A response with status 304, converted and returned with status 200.
C12_NotModifiedConverted ==
    /\ pc = "replied"
    /\ resp.status = 304
    /\ nodes > 0
    /\ reply.status = 200
    /\ reply.markdown
    /\ reply.body = out

\* the value of the first attribute of the element with the name, if any
C13_Attr(e, name) ==
    LET at == {i \in 1..Len(e.attrs) : e.attrs[i][1] = name}
    IN  IF at = {} THEN None
        ELSE Some(e.attrs[CHOOSE i \in at : \A j \in at : i <= j][2])

\* the metadata after a `meta` element: a recognized property with a content
\* overwrites its field, a tag is appended
C13_Update(m, e) ==
    LET property == C13_Attr(e, "property")
        cont == C13_Attr(e, "content")
    IN  IF ~(property.some /\ cont.some) THEN m
        ELSE CASE property.v = "og:title" -> [m EXCEPT !.title = cont]
               [] property.v = "og:description" -> [m EXCEPT !.description = cont]
               [] property.v = "article:author" -> [m EXCEPT !.author = cont]
               [] property.v = "article:published_time" -> [m EXCEPT !.date = cont]
               [] property.v = "article:tag" -> [m EXCEPT !.tags = Append(@, cont.v)]
               [] OTHER -> m

\* process_node is called on a `meta` element
C13_MetaVisited ==
    /\ nodes' = nodes + 1
    /\ handle'.kind = "element"
    /\ handle'.tag = "meta"

\* the finalized text without front matter
C13_Body ==
    IF config.clean_whitespace /\ ~config.preserve_line_breaks
    THEN Trim(ReplaceWsRuns(Trim(content), "\n\n"))
    ELSE Trim(content)

C14_Marker(tag) ==
    CASE tag \in {"strong", "b"} -> "**"
      [] tag \in {"em", "i"} -> "*"
      [] tag = "mark" -> "=="
      [] tag = "del" -> "~~"
      [] tag = "ins" -> "__"

\* the marker is appended where text is appended: to the cell in table mode,
\* to the buffer otherwise
C14_Written(marker) ==
    IF in_table
    THEN current_cell' = current_cell \o marker /\ content' = content
    ELSE content' = content \o marker /\ current_cell' = current_cell

\* C14: The opening marker of an emphasis element (strong, b, em, i, mark,
\* del, ins) is written when the element is entered, and its closing marker
\* when it is left, to the destination of the text between them: in table
\* mode to the cell buffer, otherwise to the output buffer.
C14_MarkersAroundText ==
    [][/\ (\E e \in Offered : EnterInline(e)) => C14_Written(C14_Marker(handle'.tag))
       /\ LeaveInline => C14_Written(C14_Marker(Top.tag))]_vars

\* `<table><tr><td><strong>x</strong></td></tr></table>`: both markers in
\* front of the table, the bare text in the cell.
C14_MarkersOutsideCell ==
    /\ pc = "done"
    /\ nodes = 5
    /\ handle = TextNode("x")
    /\ table_rows = << <<"x">> >>
    /\ out = "****\n| x |\n| - |"

\* the calls of the given arms that have not returned
C15_Open(arms) == {i \in 1..Len(stack) : stack[i].arm \in arms}

\* C15: At every point of the walk the in-table flag is set if and only if
\* the walk is inside a `table` element whose processing has not finished;
\* in particular it is still set after a table nested in a cell of another
\* table has been completed.
C15_InTableIffInsideTable ==
    pc = "walk" => (in_table <=> C15_Open({"table"}) # {})

\* Back in the cell of the outer table after a nested table has been
\* completed, with the flag cleared.
C15_FlagClearedInOuterTable ==
    /\ pc = "walk"
    /\ Top.arm = "cell"
    /\ handle = El("table")
    /\ nodes = 4
    /\ ~in_table

\* the walk is inside an element with one of the tags
C16_Inside(tags) == \E i \in 1..Len(stack) : stack[i].tag \in tags

\* C16: In every state of the walk current_row is empty whenever the walk is
\* not inside a `tr`, and current_cell is empty whenever the walk is not
\* inside a `td` or `th`.
C16_BuffersEmptyOutside ==
    pc = "walk" =>
        /\ ~C16_Inside({"tr"}) => current_row = <<>>
        /\ ~C16_Inside({"td", "th"}) => current_cell = ""

\* After the cell of `<table><tr><td>a</td>` has been left: the walk is in
\* the row, outside any cell, and current_cell still holds the text.
C16_CellBufferKeptAfterCell ==
    /\ pc = "walk"
    /\ Top.arm = "tr"
    /\ nodes = 4
    /\ current_row = <<"a">>
    /\ current_cell = "a"

\* the walk is inside a `pre` or `code` element
C17_InsideCode == \E i \in 1..Len(stack) : stack[i].tag \in {"pre", "code"}

\* C17: At every point of the walk in_code_block is set if and only if the
\* walk is inside a `pre` or `code` element, for every nesting of the two:
\* leaving an inner `pre` or `code` does not clear it while an outer one is
\* open, and it is clear outside all of them.
C17_CodeFlagWhileInside ==
    pc = "walk" => (in_code_block <=> C17_InsideCode)

\* `<code><pre></pre> a  b </code>`: after the inner `pre` the flag is
\* cleared inside `code`, and the text is cleaned.
C17_CleanedInsideCode ==
    /\ pc = "walk"
    /\ Top.arm = "code"
    /\ nodes = 3
    /\ handle = TextNode(" a  b ")
    /\ ~in_code_block
    /\ SubSeq(content, Len(content) - 2, Len(content)) = "a b"

\* the `ul` / `ol` elements being processed, outermost first, as positions
\* of the call stack
C18_Lists == {i \in 1..Len(stack) : stack[i].tag \in {"ul", "ol"}}

C18_Tagged(tag) == {i \in C18_Lists : stack[i].tag = tag}

RECURSIVE C18_Kinds(_)
\* the kinds of the lists being processed from position i of the call stack on
C18_Kinds(i) ==
    IF i > Len(stack) THEN <<>>
    ELSE (IF stack[i].tag = "ul" THEN <<"Unordered">>
          ELSE IF stack[i].tag = "ol" THEN <<"Ordered">>
          ELSE <<>>)
         \o C18_Kinds(i + 1)

\* C18: At every point of the walk list_type_stack has one entry per `ul` /
\* `ol` element being processed, of its kind and in nesting order, and
\* indent_level is 2 times the number of Unordered plus 3 times the number of
\* Ordered entries; so both are back at their earlier values when a list has
\* been left, and at the end of the conversion the stack is empty and
\* indent_level is 0.
C18_ListStateMatchesNesting ==
    /\ Len(list_type_stack) = Cardinality(C18_Lists)
    /\ [i \in 1..Len(list_type_stack) |-> list_type_stack[i].kind] = C18_Kinds(1)
    /\ indent_level = 2 * Cardinality(C18_Tagged("ul"))
                        + 3 * Cardinality(C18_Tagged("ol"))
    /\ pc = "done" => (list_type_stack = <<>> /\ indent_level = 0)

\* Inside an `ol` nested in an item of a `ul`: two entries, indentation 5.
C18_OrderedInsideUnordered ==
    /\ pc = "walk"
    /\ Top.arm = "item"
    /\ [i \in 1..Len(list_type_stack) |-> list_type_stack[i].kind]
           = <<"Unordered", "Ordered">>
    /\ indent_level = 5
    /\ content = "  *      1. "

\* ---- C19 ----
\* A step of the BLOCK_TAGS arm that calls add_double_newline: the entry of a
\* `p`, `div`, `article` or `section`, or the return from one.
C19_Boundary ==
    \/ Len(stack') = Len(stack) + 1 /\ stack'[Len(stack')].arm = "block"
    \/ Len(stack') = Len(stack) - 1 /\ Top.arm = "block"

\* Two newline characters end the buffer.
C19_EndsWithEmptyLine(c) == Len(c) >= 2 /\ SubSeq(c, Len(c) - 1, Len(c)) = "\n\n"

\* C19: a generic block element forces a blank-line boundary before and after
\* its content: when add_double_newline runs on a buffer that ends with text,
\* the buffer ends with an empty line (two newline characters) afterwards, so
\* the contents of two consecutive paragraphs are separated by a blank line.
C19_BlankLineBoundary ==
    [][(C19_Boundary /\ content # "" /\ ~EndsWithNewline(content))
           => C19_EndsWithEmptyLine(content')]_vars

\* `<p>a</p><p>a</p>`: the two paragraphs are on adjacent lines of the buffer.
C19_ParagraphsOnAdjacentLines ==
    /\ pc = "walk" /\ Top.arm = "doc" /\ nodes = 4
    /\ handle = TextNode("a")
    /\ content = "a\na\n"

\* ---- C20 ----
\* A step that emits a block boundary: an arm that calls add_newline or
\* add_double_newline (block, heading, image, list item, list, table) and
\* has written to the buffer.
C20_Boundary ==
    /\ \/ \E e \in Offered : EnterBlock(e) \/ EnterHeader(e) \/ Image(e)
       \/ LeaveBlock \/ LeaveHeader \/ LeaveItem \/ LeaveList \/ LeaveTable
    /\ content' # content

\* Three newline characters in a row: more than one consecutive blank line.
C20_ThreeNewlines(c) == \E i \in 1..(Len(c) - 2) : SubSeq(c, i, i + 2) = "\n\n\n"

\* C20: after any sequence of dispatch steps, at each point where a block
\* boundary has just been emitted the output buffer holds no more than one
\* consecutive blank line: never three or more newline characters in a row.
C20_NoDoubleBlankLine ==
    [][C20_Boundary => ~C20_ThreeNewlines(content')]_vars

\* `<p>a</p>`, a text node of two line breaks, `<p>a</p>`: the boundary after
\* the second paragraph is emitted into a buffer with two blank lines
C20_TwoBlankLinesBetweenParagraphs ==
    /\ pc = "walk" /\ Top.arm = "doc" /\ nodes = 5
    /\ ~config.clean_whitespace
    /\ content = "a\n\n\na\n"

\* ---- C21 ----
\* C21: the ordered-list counter keeps incrementing by one for every item of
\* a list of any length: when the loop of process_list has handled an item,
\* the conversion goes on and the counter is one more than before, also past
\* the 255th item, so that the 256th item is labelled `256. `; the counter
\* neither wraps around to 0 nor aborts the conversion.
C21_CounterIncrementsByOne ==
    [][LeaveItem =>
          /\ pc' = "walk"
          /\ stack'[Len(stack')].current_count =
                 stack[Len(stack) - 1].current_count + 1]_vars

\* An ordered list whose 255th item has just been handled: the counter that
\* labels the next item is 0, not 256.
C21_CounterWrappedAfter255 ==
    /\ pc = "walk"
    /\ Top.arm = "list" /\ Top.list_type.kind = "Ordered"
    /\ Top.items = 255
    /\ Top.current_count = 0

\* ---- C22 ----
\* the tables that are being processed
C22_OpenTables == {i \in 1..Len(stack) : stack[i].arm = "table"}

\* A `tr` child of a table is taken by the `tr` arm and a `td` child of such
\* a row by the cell arm: their content is collected for the table.
C22_ChildCollected ==
    (nodes' = nodes + 1 /\ Top.arm \in {"table", "tr"}) =>
        /\ Len(stack') = Len(stack) + 1
        /\ stack'[Len(stack')].arm = (IF Top.arm = "table" THEN "tr" ELSE "cell")

\* The rows that format_table renders for the outer table of a tree of the
\* page "nested table" that has its inner table (10 nodes or more): the
\* row `a` collected before the inner table comes first, and apart from the
\* cell that holds the inner table every cell is one of the outer table,
\* which read `c`.
C22_OuterRendering ==
    (LeaveTable /\ Cardinality(C22_OpenTables) = 1 /\ nodes >= 10) =>
        /\ Len(table_rows) >= 2
        /\ table_rows[1] = <<"a">>
        /\ \A i \in 2..Len(table_rows) : \A k \in 1..Len(table_rows[i]) :
               (i # 2 \/ k # 1) => table_rows[i][k] = "c"

\* C22: every non-empty row collected for a table is rendered exactly once,
\* in document order, in that table's rendering, also when one of its cells
\* contains a nested table: the rows the outer table accumulated before the
\* inner table are neither discarded nor replaced by the rows of the inner
\* table, and the rows and cells of the outer table that follow the inner
\* table are still collected.
C22_RowsRenderedOnce ==
    [][C22_ChildCollected /\ C22_OuterRendering]_vars

\* `<table><tr><td>a</td></tr><tr><td><table><tr><td>b</td></tr></table>
\* </td></tr><tr><td>c</td></tr></table>` after the outer table is rendered
C22_InnerRowRenderedTwice ==
    /\ pc = "walk" /\ Top.arm = "doc" /\ nodes = 13
    /\ table_rows = <<<<"b">>, <<"b", "b">>>>
    /\ content = "\n| b |\n| - |\nc\n| b |\n| - |\n| b |\n"

====
